---- MODULE Spec2Model ----
(***************************************************************************)
(* Model of src/main.py: the /mcp endpoint (mcp_endpoint and the async     *)
(* generator process_twilio_request) and the Twilio webhook handler        *)
(* (twilio_webhook_catchall).                                              *)
(*                                                                         *)
(* Text is a sequence of atoms.  An atom is one character of caller- or    *)
(* provider-supplied data, or one chunk of a literal of the source that    *)
(* holds no character json.dumps escapes.  The characters json.dumps       *)
(* escapes (the double quote, the backslash, a non-ASCII character) are    *)
(* always atoms of their own.  "U+00E1" stands for the character a-acute.  *)
(***************************************************************************)
EXTENDS Integers, Sequences, FiniteSets, TLC

\* ------------------------------------------------------------------ bounds
\* Addresses are built from at most MaxPieces pieces of AddressPieces.
MaxPieces == 2

\* ------------------------------------------------------------- text helpers
\* str.startswith
StartsWith(s, p) == Len(s) >= Len(p) /\ SubSeq(s, 1, Len(p)) = p

\* `sub in s` on text
Contains(s, sub) ==
  \E i \in 0..(Len(s) - Len(sub)) : SubSeq(s, i + 1, i + Len(sub)) = sub

Quote == "\""
Backslash == "\\"
\* a-acute and o-acute, the non-ASCII characters of the literals of main.py
NonAscii == {"U+00E1", "U+00F3"}
HexOf(c) == IF c = "U+00E1" THEN "00e1" ELSE "00f3"
CharOfHex(h) == IF h = "00e1" THEN "U+00E1" ELSE IF h = "00f3" THEN "U+00F3" ELSE "?"
DigitChars == <<"0", "1", "2", "3", "4", "5", "6", "7", "8", "9">>
IsDigit(c) == \E d \in 1..10 : DigitChars[d] = c
DigitVal(c) == (CHOOSE d \in 1..10 : DigitChars[d] = c) - 1

\* str(n) for a non-negative int
RECURSIVE Digits(_)
Digits(n) == IF n < 10 THEN <<DigitChars[n + 1]>>
             ELSE Digits(n \div 10) \o <<DigitChars[(n % 10) + 1]>>

\* ------------------------------------------------------------- Python values
\* The values a parsed JSON request can carry in metadata (and the values
\* the Twilio SDK hands back): None, a str, an int.
PyNone == [t |-> "none", s |-> <<>>, n |-> 0]
PyStrV(s) == [t |-> "str", s |-> s, n |-> 0]
PyInt(n) == [t |-> "int", s |-> <<>>, n |-> n]

\* bool(v): what `not v` tests
Truthy(v) ==
  CASE v.t = "none" -> FALSE
    [] v.t = "str" -> v.s # <<>>
    [] v.t = "int" -> v.n # 0

\* str(v) / the rendering of {v} in an f-string
PyStr(v) ==
  CASE v.t = "none" -> <<"None">>
    [] v.t = "str" -> v.s
    [] v.t = "int" -> Digits(v.n)

\* -------------------------------------------------------------- JSON values
JNull == [t |-> "null", s |-> <<>>, n |-> 0, o |-> <<>>]
JStr(s) == [t |-> "str", s |-> s, n |-> 0, o |-> <<>>]
JInt(n) == [t |-> "int", s |-> <<>>, n |-> n, o |-> <<>>]
\* an object is the sequence of its <<key, value>> members, in insertion order
JObj(members) == [t |-> "obj", s |-> <<>>, n |-> 0, o |-> members]
JError == [t |-> "error", s |-> <<>>, n |-> 0, o |-> <<>>]

\* the JSON value of a Python value
ToJson(v) ==
  CASE v.t = "none" -> JNull
    [] v.t = "str" -> JStr(v.s)
    [] v.t = "int" -> JInt(v.n)

HasKey(obj, key) == obj.t = "obj" /\ \E i \in 1..Len(obj.o) : obj.o[i][1] = key
Get(obj, key) ==
  IF HasKey(obj, key)
  THEN obj.o[CHOOSE i \in 1..Len(obj.o) : obj.o[i][1] = key][2]
  ELSE JError

\* json.dumps of one character of a str (ensure_ascii=True)
EscapeAtom(c) ==
  IF c = Quote THEN <<Backslash, Quote>>
  ELSE IF c = Backslash THEN <<Backslash, Backslash>>
  ELSE IF c \in NonAscii THEN <<Backslash, "u", HexOf(c)>>
  ELSE <<c>>

\* json.dumps of the characters of a str, one by one (by halves, to keep the
\* evaluation shallow)
RECURSIVE Escape(_)
Escape(s) ==
  IF s = <<>> THEN <<>>
  ELSE IF Len(s) = 1 THEN EscapeAtom(s[1])
  ELSE Escape(SubSeq(s, 1, Len(s) \div 2)) \o Escape(SubSeq(s, (Len(s) \div 2) + 1, Len(s)))

\* json.dumps(v), default separators (", " and ": ")
RECURSIVE JsonDumps(_), DumpMembers(_, _)
JsonDumps(v) ==
  CASE v.t = "str" -> <<Quote>> \o Escape(v.s) \o <<Quote>>
    [] v.t = "int" -> Digits(v.n)
    [] v.t = "null" -> <<"null">>
    [] v.t = "obj" -> <<"{">> \o DumpMembers(v.o, 1) \o <<"}">>

DumpMembers(o, i) ==
  IF i > Len(o) THEN <<>>
  ELSE (IF i > 1 THEN <<", ">> ELSE <<>>)
       \o <<Quote>> \o Escape(o[i][1]) \o <<Quote>> \o <<": ">>
       \o JsonDumps(o[i][2]) \o DumpMembers(o, i + 1)

\* json.loads: what a client of the stream does with a frame's data.
\* Every parser returns [ok, val, next]: next is the first unread position.
Fail == [ok |-> FALSE, val |-> JError, next |-> 0]

\* the number of backslashes that stand right before position j of s, counted
\* back no further than position lo
BackslashRun(s, lo, j) ==
  CHOOSE r \in 0..(j - lo) :
    /\ \A q \in 1..r : s[j - q] = Backslash
    /\ (r = j - lo \/ s[j - r - 1] # Backslash)

\* position j of s (a string body that starts at lo) is the second character
\* of an escape
Escaped(s, lo, j) == BackslashRun(s, lo, j) % 2 = 1
\* position j is the hex part of a \u escape
IsHex(s, lo, j) == j - 1 >= lo /\ s[j - 1] = "u" /\ Escaped(s, lo, j - 1)
\* position j starts a character or an escape
StartsUnit(s, lo, j) == ~Escaped(s, lo, j) /\ ~IsHex(s, lo, j)
\* the length of the character or escape that starts at position j
UnitLen(s, j) ==
  IF s[j] # Backslash THEN 1
  ELSE IF j + 1 <= Len(s) /\ s[j + 1] = "u" THEN 3 ELSE 2

\* the characters of a string body (the text between the quotes), escapes
\* undone; [ok, s]
RECURSIVE Unescape(_)
Unescape(s) ==
  IF s = <<>> THEN [ok |-> TRUE, s |-> <<>>]
  ELSE IF UnitLen(s, 1) > Len(s) THEN [ok |-> FALSE, s |-> <<>>]
  ELSE IF UnitLen(s, 1) = Len(s) THEN
    [ok |-> TRUE,
     s |-> << IF Len(s) = 1 THEN s[1]
              ELSE IF Len(s) = 3 THEN CharOfHex(s[3]) ELSE s[2] >>]
  ELSE
    LET mid == (Len(s) \div 2) + 1
        near == {j \in {mid - 2, mid - 1, mid} : j >= 2 /\ StartsUnit(s, 1, j)}
        cut == IF near = {} THEN 1 + UnitLen(s, 1)
               ELSE CHOOSE j \in near : \A k \in near : k <= j
        left == Unescape(SubSeq(s, 1, cut - 1))
        right == Unescape(SubSeq(s, cut, Len(s)))
    IN [ok |-> left.ok /\ right.ok, s |-> left.s \o right.s]

\* a string read from position i of enc, the position after its opening quote
IsClosingQuote(enc, i, j) == enc[j] = Quote /\ StartsUnit(enc, i, j)
ReadStr(enc, i) ==
  IF ~\E j \in i..Len(enc) : IsClosingQuote(enc, i, j) THEN Fail
  ELSE
    LET close == CHOOSE j \in i..Len(enc) :
                   /\ IsClosingQuote(enc, i, j)
                   /\ \A k \in i..(j - 1) : ~IsClosingQuote(enc, i, k)
        body == Unescape(SubSeq(enc, i, close - 1))
    IN IF body.ok THEN [ok |-> TRUE, val |-> JStr(body.s), next |-> close + 1] ELSE Fail

RECURSIVE ReadInt(_, _, _)
ReadInt(enc, i, acc) ==
  IF i <= Len(enc) /\ IsDigit(enc[i])
  THEN ReadInt(enc, i + 1, 10 * acc + DigitVal(enc[i]))
  ELSE [ok |-> TRUE, val |-> JInt(acc), next |-> i]

RECURSIVE ParseValue(_, _), ParseMembers(_, _, _)
ParseValue(enc, i) ==
  IF i > Len(enc) THEN Fail
  ELSE IF enc[i] = Quote THEN ReadStr(enc, i + 1)
  ELSE IF enc[i] = "null" THEN [ok |-> TRUE, val |-> JNull, next |-> i + 1]
  ELSE IF IsDigit(enc[i]) THEN ReadInt(enc, i, 0)
  ELSE IF enc[i] = "{" THEN
    IF i + 1 <= Len(enc) /\ enc[i + 1] = "}"
    THEN [ok |-> TRUE, val |-> JObj(<<>>), next |-> i + 2]
    ELSE ParseMembers(enc, i + 1, <<>>)
  ELSE Fail

ParseMembers(enc, i, acc) ==
  IF i > Len(enc) \/ enc[i] # Quote THEN Fail
  ELSE LET k == ReadStr(enc, i + 1) IN
    IF ~k.ok \/ k.next > Len(enc) \/ enc[k.next] # ": " THEN Fail
    ELSE LET v == ParseValue(enc, k.next + 1) IN
      IF ~v.ok \/ v.next > Len(enc) THEN Fail
      ELSE LET members == Append(acc, <<k.val.s, v.val>>) IN
        IF enc[v.next] = "}"
          THEN [ok |-> TRUE, val |-> JObj(members), next |-> v.next + 1]
        ELSE IF enc[v.next] = ", " THEN ParseMembers(enc, v.next + 1, members)
        ELSE Fail

JsonLoads(enc) ==
  LET r == ParseValue(enc, 1) IN
  IF r.ok /\ r.next = Len(enc) + 1 THEN r.val ELSE JError

\* ------------------------------------------------------ request structures
\* "send_whatsapp_message", the one capability (main.py line 69)
SendCapability == <<"send_whatsapp_message">>

\* "whatsapp:", the transport prefix (main.py lines 78-79, 83-84, 162, 165-166)
Prefix == <<"w", "h", "a", "t", "s", "a", "p", "p", ":">>

\* text s repeated over the pieces of a sequence of pieces
RECURSIVE Flatten(_)
Flatten(ps) == IF ps = <<>> THEN <<>> ELSE Head(ps) \o Flatten(Tail(ps))

AddressPieces == {Prefix, <<"+", "1">>, <<"w", "h", "a", "t", "s", "a", "p", "p">>}
PieceSeqs == UNION {[1..k -> AddressPieces] : k \in 0..MaxPieces}
\* bare numbers, prefixed numbers, doubly prefixed ones, near-prefixes, ""
Addresses == {Flatten(ps) : ps \in PieceSeqs}

\* metadata["params"]: the key absent, null, or a mapping with "to" and "body"
\* (a key absent from the mapping and a key holding null both read as None)
ParamsAbsent == [kind |-> "absent", to |-> PyNone, body |-> PyNone]
ParamsNull == [kind |-> "null", to |-> PyNone, body |-> PyNone]
ParamsDict(to, body) == [kind |-> "dict", to |-> to, body |-> body]

ToValues == {PyStrV(a) : a \in Addresses} \cup {PyNone, PyInt(0), PyInt(5)}
BodyValues == {PyNone, PyStrV(<<>>), PyStrV(<<"h", "i">>), PyInt(123)}
CapabilityValues ==
  {PyStrV(SendCapability), PyStrV(<<"s", "m", "s">>), PyStrV(<<"a", Quote>>),
   PyNone, PyInt(7)}
ParamsValues ==
  {ParamsAbsent, ParamsNull} \cup {ParamsDict(t, b) : t \in ToValues, b \in BodyValues}

\* SimpleMessage (main.py lines 26-29), role and content left out: metadata
\* is None or a mapping
NoMetadata == [present |-> FALSE, capability |-> PyNone, params |-> ParamsAbsent]
Metadata(c, p) == [present |-> TRUE, capability |-> c, params |-> p]
Messages ==
  {NoMetadata}
  \cup {Metadata(c, p) : c \in CapabilityValues,
                         p \in {ParamsAbsent, ParamsNull,
                                ParamsDict(PyStrV(<<"+", "1">>), PyStrV(<<"h", "i">>))}}
  \cup {Metadata(PyStrV(SendCapability), p) : p \in ParamsValues}

\* the form fields of a webhook call: Optional[str]
FormValues == {PyNone, PyStrV(<<>>)}
BodyFields == FormValues \cup {PyStrV(<<"h", "i">>)}
FromFields == FormValues \cup {PyStrV(a) : a \in Addresses \ {<<>>}}
NoForm == [Body |-> PyNone, From |-> PyNone]

\* what twilio_client.messages.create does: returns a message (sid, status),
\* raises TwilioRestException (msg, code, status), or raises something else
ProviderOk(sid, status) ==
  [kind |-> "ok", sid |-> sid, status |-> status, msg |-> <<>>, code |-> PyNone]
ProviderReject(msg, code, status) ==
  [kind |-> "rest", sid |-> <<>>, status |-> status, msg |-> msg, code |-> code]
ProviderOther(text) ==
  [kind |-> "other", sid |-> <<>>, status |-> PyNone, msg |-> text, code |-> PyNone]
NoOutcome == [kind |-> "none", sid |-> <<>>, status |-> PyNone, msg |-> <<>>, code |-> PyNone]

Sids == {<<"S", "M", "1">>, <<"S", "M", "2">>}
Statuses == {PyStrV(<<"queued">>), PyStrV(<<"failed">>)}
RejectMessages ==
  {<<"invalid ", "'", "To", "'", " number">>, <<"bad ", Quote, "x", Quote, Backslash>>}
RejectCodes == {PyInt(21211), PyInt(63007), PyNone}
RejectStatuses == {PyInt(400), PyInt(404)}
ProviderOutcomes ==
  {ProviderOk(s, st) : s \in Sids, st \in Statuses}
  \cup {ProviderReject(m, c, st) : m \in RejectMessages, c \in RejectCodes, st \in RejectStatuses}
  \cup {ProviderOther(<<"Connection refused">>)}

\* ---------------------------------------------------------------- the state
VARIABLES
  twilio_client,           \* TRUE: a Client object; FALSE: None
  TWILIO_WHATSAPP_NUMBER,  \* os.getenv("TWILIO_WHATSAPP_NUMBER"): None or a str
  handler,                 \* the handler of the request in hand
  pc,                      \* where that handler (or the generator) stands
  message,                 \* the SimpleMessage of the /mcp request
  form,                    \* the form fields of the webhook request
  provider,                \* what the provider did with this request's send
  frames,                  \* the frames the generator has yielded so far
  sends,                   \* the calls of messages.create made for this request
  httpStatus,              \* the status of the HTTP response, 0 before any
  responseBody,            \* the JSON body of a response that is no stream
  internalError            \* the webhook's try block raised

vars == <<twilio_client, TWILIO_WHATSAPP_NUMBER, handler, pc, message, form,
          provider, frames, sends, httpStatus, responseBody, internalError>>

\* ------------------------------------------------------------ module start
\* lines 43-51: the client exists only when all three variables are set and
\* Client(...) did not raise
ClientInitialized(sid, token, number, constructed) ==
  sid /\ token /\ Truthy(number) /\ constructed

NumberValues ==
  {PyNone, PyStrV(<<>>), PyStrV(<<"+", "1", "4">>), PyStrV(Prefix \o <<"+", "1", "4">>)}

Init ==
  /\ TWILIO_WHATSAPP_NUMBER \in NumberValues
  /\ \E sid \in BOOLEAN, token \in BOOLEAN, constructed \in BOOLEAN :
       twilio_client = ClientInitialized(sid, token, TWILIO_WHATSAPP_NUMBER, constructed)
  /\ handler = "none"
  /\ pc = "idle"
  /\ message = NoMetadata
  /\ form = NoForm
  /\ provider = NoOutcome
  /\ frames = <<>>
  /\ sends = <<>>
  /\ httpStatus = 0
  /\ responseBody = JNull
  /\ internalError = FALSE

\* ----------------------------------------------------- process_twilio_request
\* lines 23-29 and .dict(): an envelope with no metadata
Envelope(role, text) ==
  JObj(<< <<(<<"role">>), JStr(role)>>,
          <<(<<"content">>), JObj(<< <<(<<"text">>), JStr(text)>> >>)>>,
          <<(<<"metadata">>), JNull>> >>)

\* a yielded str is one event carrying it as data; a yielded dict names its event
DataFrame(data) == [event |-> "message", data |-> data]
EndFrame(data) == [event |-> "end", data |-> data]

\* lines 62-64, 103-105, 108-110: json.dumps(SimpleMessage("error", ...).dict())
ErrorFrame(record) == DataFrame(JsonDumps(Envelope(<<"error">>, JsonDumps(record))))

\* line 57
CapabilityOf(m) == IF m.present THEN m.capability ELSE PyNone
\* line 58: metadata.get("params", {})
ParamsOf(m) == IF m.present THEN m.params ELSE ParamsAbsent

\* a guard that never finds the client missing
ClientUnavailableNever(client) == FALSE

\* line 61: `if not twilio_client`
ClientUnavailable(client) == ~client

\* line 62
ClientUnavailableRecord ==
  JObj(<< <<(<<"message">>),
            JStr(<<"Error interno: Cliente de Twilio no inicializado (faltan credenciales).">>)>> >>)

\* a dispatch that takes any capability name for the send capability
IsSendCapabilityAny(capability) == capability.t = "str"

\* line 69
IsSendCapability(capability) == capability = PyStrV(SendCapability)

\* line 73: `not to_number or not body`
MissingParams(to_number, body) == ~Truthy(to_number) \/ ~Truthy(body)

\* a normalization that prepends the prefix without looking
NormalizeAlways(a) == Prefix \o a

\* lines 78-79, 83-84, 162, 165-166
Normalize(a) == IF StartsWith(a, Prefix) THEN a ELSE Prefix \o a

\* a send that is made a second time
CreateCallsRetry(from_, body, to) ==
  << [from_ |-> from_, body |-> body, to |-> to], [from_ |-> from_, body |-> body, to |-> to] >>

\* lines 86-90: the calls of messages.create one request makes
CreateCalls(from_, body, to) == << [from_ |-> from_, body |-> body, to |-> to] >>

\* a result that reports the status under both keys
ResultDataSwapped(sid, status) ==
  JObj(<< <<(<<"message_sid">>), ToJson(status)>>, <<(<<"status">>), ToJson(status)>> >>)

\* line 92
ResultData(sid, status) ==
  JObj(<< <<(<<"message_sid">>), JStr(sid)>>, <<(<<"status">>), ToJson(status)>> >>)

\* exceptions: [type, text, e] with e the provider outcome of a TwilioRestException
Raised(type, text) == [type |-> type, text |-> text, e |-> NoOutcome]
NoException == Raised("none", <<>>)

\* line 74
RequiredParamsText ==
  <<"Par", "U+00E1", "metros ", "'to'", " y ", "'body'", " son requeridos para ",
    "send_whatsapp_message">>
\* line 99
UnsupportedText(capability) == <<"Capacidad no soportada: ">> \o PyStr(capability)
\* AttributeError of `params.get` on None (line 70) and of `to_number.startswith`
\* on an int (line 78)
NoAttributeText(type, attr) ==
  <<"'", type, "'", " object has no attribute ", "'", attr, "'">>

\* lines 68-99: the try block run to its yield or to the exception it raises.
\* [exc, calls, data]: data is the result_data of a successful send.
TryBlock(capability, params, from_number, outcome) ==
  IF IsSendCapability(capability) THEN
    IF params.kind = "null" THEN
      [exc |-> Raised("AttributeError", NoAttributeText("NoneType", "get")),
       calls |-> <<>>, data |-> JNull]
    ELSE IF MissingParams(params.to, params.body) THEN
      [exc |-> Raised("ValueError", RequiredParamsText), calls |-> <<>>, data |-> JNull]
    ELSE IF params.to.t # "str" THEN
      [exc |-> Raised("AttributeError", NoAttributeText("int", "startswith")),
       calls |-> <<>>, data |-> JNull]
    ELSE
      LET calls == CreateCalls(Normalize(from_number), params.body, Normalize(params.to.s))
      IN CASE outcome.kind = "ok" ->
                [exc |-> NoException, calls |-> calls,
                 data |-> ResultData(outcome.sid, outcome.status)]
           [] outcome.kind = "rest" ->
                [exc |-> [type |-> "TwilioRestException", text |-> outcome.msg, e |-> outcome],
                 calls |-> calls, data |-> JNull]
           [] outcome.kind = "other" ->
                [exc |-> Raised("Exception", outcome.msg), calls |-> calls, data |-> JNull]
  ELSE
    [exc |-> Raised("ValueError", UnsupportedText(capability)), calls |-> <<>>, data |-> JNull]

\* an except chain with the generic clause first
CaughtByGeneric(exc) == "Exception"

\* lines 101 and 106: the except clause that takes the exception
CaughtBy(exc) ==
  IF exc.type = "TwilioRestException" THEN "TwilioRestException" ELSE "Exception"

\* line 103
TwilioErrorRecord(e) ==
  JObj(<< <<(<<"message">>), JStr(<<"Error de Twilio: ">> \o e.msg)>>,
          <<(<<"details">>),
            JObj(<< <<(<<"twilio_code">>), ToJson(e.code)>>,
                    <<(<<"status">>), ToJson(e.status)>> >>)>> >>)

\* line 108
UnexpectedErrorRecord(capability, text) ==
  JObj(<< <<(<<"message">>),
            JStr(<<"Error inesperado al procesar la solicitud (">> \o PyStr(capability)
                 \o <<")", ": ">> \o text)>> >>)

\* lines 93-95 and 101-110: the one frame the try statement yields before its
\* finally clause
ResultFrame(capability, r) ==
  IF r.exc.type = "none"
  THEN DataFrame(JsonDumps(Envelope(<<"assistant">>, JsonDumps(r.data))))
  ELSE IF CaughtBy(r.exc) = "TwilioRestException"
  THEN ErrorFrame(TwilioErrorRecord(r.exc.e))
  ELSE ErrorFrame(UnexpectedErrorRecord(capability, r.exc.text))

\* the line of the yield the generator is suspended at after its first frame
YieldLine(r) ==
  IF r.exc.type = "none" THEN "L95"
  ELSE IF CaughtBy(r.exc) = "TwilioRestException" THEN "L105" ELSE "L110"

\* lines 111-113: what the finally clause yields
FinallyFrame == EndFrame(<<"Stream ended">>)

\* line 65
ClientUnavailableEnd == EndFrame(<<"Stream ended due to error">>)

\* a generator whose client-unavailable branch sits inside the try statement:
\* its return runs the finally clause
AfterYieldInTry(line) ==
  CASE line \in {"L95", "L105", "L110", "L65"} -> "finally"
    [] line = "L64" -> "L65"
    [] line = "L113" -> "return"

\* where the generator goes when resumed at a yield: into the finally clause
\* (the yields of the try statement), to the next statement, or to its end
AfterYield(line) ==
  CASE line \in {"L95", "L105", "L110"} -> "finally"
    [] line = "L64" -> "L65"
    [] line \in {"L65", "L113"} -> "return"

\* ------------------------------------------------------------- mcp_endpoint
\* a handler starts on a fresh request: nothing of the previous one is kept
Accepting == pc \in {"idle", "done"}

\* lines 119-124: the body is not JSON or not a SimpleMessage
McpMalformed ==
  /\ Accepting
  /\ handler' = "mcp"
  /\ pc' = "done"
  /\ httpStatus' = 400
  /\ responseBody' = JObj(<< <<(<<"detail">>), JStr(<<"Invalid request format: ">>)>> >>)
  /\ message' = NoMetadata
  /\ form' = NoForm
  /\ provider' = NoOutcome
  /\ frames' = <<>>
  /\ sends' = <<>>
  /\ internalError' = FALSE
  /\ UNCHANGED <<twilio_client, TWILIO_WHATSAPP_NUMBER>>

\* lines 120-121 and 126: the generator is created, not yet started
McpAccept(m) ==
  /\ Accepting
  /\ handler' = "mcp"
  /\ pc' = "created"
  /\ httpStatus' = 200
  /\ responseBody' = JNull
  /\ message' = m
  /\ form' = NoForm
  /\ provider' = NoOutcome
  /\ frames' = <<>>
  /\ sends' = <<>>
  /\ internalError' = FALSE
  /\ UNCHANGED <<twilio_client, TWILIO_WHATSAPP_NUMBER>>

\* lines 56-64: the first resumption, client unavailable
GenClientUnavailable ==
  /\ handler = "mcp" /\ pc = "created"
  /\ ClientUnavailable(twilio_client)
  /\ frames' = Append(frames, ErrorFrame(ClientUnavailableRecord))
  /\ pc' = "L64"
  /\ UNCHANGED <<twilio_client, TWILIO_WHATSAPP_NUMBER, handler, message, form,
                 provider, sends, httpStatus, responseBody, internalError>>

\* lines 56-110: the first resumption, up to the yield of the result frame
GenDispatch(outcome) ==
  /\ handler = "mcp" /\ pc = "created"
  /\ ~ClientUnavailable(twilio_client)
  /\ LET r == TryBlock(CapabilityOf(message), ParamsOf(message),
                       TWILIO_WHATSAPP_NUMBER.s, outcome)
     IN /\ frames' = Append(frames, ResultFrame(CapabilityOf(message), r))
        /\ sends' = sends \o r.calls
        /\ provider' = IF r.calls = <<>> THEN NoOutcome ELSE outcome
        /\ pc' = YieldLine(r)
  /\ UNCHANGED <<twilio_client, TWILIO_WHATSAPP_NUMBER, handler, message, form,
                 httpStatus, responseBody, internalError>>

\* line 65: resumed at the yield of line 64
GenClientUnavailableEnd ==
  /\ handler = "mcp" /\ pc \in {"L64", "L65", "L95", "L105", "L110", "L113"}
  /\ AfterYield(pc) = "L65"
  /\ frames' = Append(frames, ClientUnavailableEnd)
  /\ pc' = "L65"
  /\ UNCHANGED <<twilio_client, TWILIO_WHATSAPP_NUMBER, handler, message, form,
                 provider, sends, httpStatus, responseBody, internalError>>

\* lines 111-113: resumed at a yield of the try statement
GenFinally ==
  /\ handler = "mcp" /\ pc \in {"L64", "L65", "L95", "L105", "L110", "L113"}
  /\ AfterYield(pc) = "finally"
  /\ frames' = Append(frames, FinallyFrame)
  /\ pc' = "L113"
  /\ UNCHANGED <<twilio_client, TWILIO_WHATSAPP_NUMBER, handler, message, form,
                 provider, sends, httpStatus, responseBody, internalError>>

\* lines 66 and 114: the generator returns, the stream is closed
GenReturn ==
  /\ handler = "mcp" /\ pc \in {"L64", "L65", "L95", "L105", "L110", "L113"}
  /\ AfterYield(pc) = "return"
  /\ pc' = "done"
  /\ UNCHANGED <<twilio_client, TWILIO_WHATSAPP_NUMBER, handler, message, form,
                 provider, frames, sends, httpStatus, responseBody, internalError>>

\* ---------------------------------------------------- twilio_webhook_catchall
\* line 146
WebhookMalformed(Body, From) == ~Truthy(Body) \/ ~Truthy(From)

\* line 170
ApologyBody ==
  PyStrV(<<"Lo siento, ocurri", "U+00F3", " un error al procesar tu solicitud. ",
           "Por favor, intenta de nuevo m", "U+00E1", "s tarde.">>)

\* lines 160-172: the calls of messages.create the except clause makes
ApologyCalls(client, From) ==
  IF Truthy(From) /\ client
  THEN CreateCalls(Normalize(TWILIO_WHATSAPP_NUMBER.s), ApologyBody, Normalize(From.s))
  ELSE <<>>

\* a handler that lets the exception of the apology send escape
StatusAfterApologyRaised(outcome) == IF outcome.kind \in {"rest", "other"} THEN 500 ELSE 200

\* lines 173-177: the status answered after the apology send ended as `outcome`
\* (every exception of the send is caught by line 173)
StatusAfterApology(outcome) == 200

\* lines 146-148
WebhookReject(Body, From) ==
  /\ Accepting
  /\ WebhookMalformed(Body, From)
  /\ handler' = "webhook"
  /\ pc' = "done"
  /\ form' = [Body |-> Body, From |-> From]
  /\ httpStatus' = 400
  /\ responseBody' =
       JObj(<< <<(<<"detail">>), JStr(<<"Mensaje recibido sin cuerpo o remitente">>)>> >>)
  /\ internalError' = FALSE
  /\ message' = NoMetadata
  /\ provider' = NoOutcome
  /\ frames' = <<>>
  /\ sends' = <<>>
  /\ UNCHANGED <<twilio_client, TWILIO_WHATSAPP_NUMBER>>

\* lines 150-155
WebhookAck(Body, From) ==
  /\ Accepting
  /\ ~WebhookMalformed(Body, From)
  /\ handler' = "webhook"
  /\ pc' = "done"
  /\ form' = [Body |-> Body, From |-> From]
  /\ httpStatus' = 200
  /\ responseBody' = JObj(<<>>)
  /\ internalError' = FALSE
  /\ message' = NoMetadata
  /\ provider' = NoOutcome
  /\ frames' = <<>>
  /\ sends' = <<>>
  /\ UNCHANGED <<twilio_client, TWILIO_WHATSAPP_NUMBER>>

\* lines 157-177: the try block raised; the apology is attempted and the
\* handler answers whatever became of it
WebhookInternalError(Body, From, outcome) ==
  /\ Accepting
  /\ ~WebhookMalformed(Body, From)
  /\ handler' = "webhook"
  /\ pc' = "done"
  /\ form' = [Body |-> Body, From |-> From]
  /\ internalError' = TRUE
  /\ sends' = ApologyCalls(twilio_client, From)
  /\ provider' = IF ApologyCalls(twilio_client, From) = <<>> THEN NoOutcome ELSE outcome
  /\ httpStatus' = StatusAfterApology(provider')
  /\ responseBody' = JObj(<<>>)
  /\ message' = NoMetadata
  /\ frames' = <<>>
  /\ UNCHANGED <<twilio_client, TWILIO_WHATSAPP_NUMBER>>

Next ==
  \/ McpMalformed
  \/ \E m \in Messages : McpAccept(m)
  \/ GenClientUnavailable
  \/ \E outcome \in ProviderOutcomes : GenDispatch(outcome)
  \/ GenClientUnavailableEnd
  \/ GenFinally
  \/ GenReturn
  \/ \E Body \in BodyFields, From \in FromFields : WebhookReject(Body, From)
  \/ \E Body \in BodyFields, From \in FromFields : WebhookAck(Body, From)
  \/ \E Body \in BodyFields, From \in FromFields, outcome \in ProviderOutcomes :
       WebhookInternalError(Body, From, outcome)

Spec == Init /\ [][Next]_vars

\* ------------------------------------------------- reading the stream back
\* What a client of the stream sees in a frame: the envelope it carries, the
\* role of the envelope, and the record JSON-encoded in content.text.
FrameEnvelope(f) == IF f.event = "message" THEN JsonLoads(f.data) ELSE JError
FrameRole(f) == Get(FrameEnvelope(f), <<"role">>).s
FrameText(f) == Get(Get(FrameEnvelope(f), <<"content">>), <<"text">>).s
FrameRecord(f) == JsonLoads(FrameText(f))
FrameMessage(f) == Get(FrameRecord(f), <<"message">>).s

IsAssistantFrame(f) == f.event = "message" /\ FrameRole(f) = <<"assistant">>
IsErrorFrame(f) == f.event = "message" /\ FrameRole(f) = <<"error">>
IsResultFrame(f) == IsAssistantFrame(f) \/ IsErrorFrame(f)
IsEndMarker(f) == f.event = "end"

\* the generator of an accepted /mcp request has yielded its first frame
McpStreaming == handler = "mcp" /\ httpStatus = 200 /\ pc # "created"
\* the stream of an accepted /mcp request is closed
McpClosed == handler = "mcp" /\ httpStatus = 200 /\ pc = "done"
\* a stream of one result frame, then one end marker, as far as it has got
OneResultThenEnd ==
  /\ Len(frames) \in 1..2
  /\ IsResultFrame(frames[1])
  /\ Len(frames) = 2 => IsEndMarker(frames[2])
  /\ pc = "done" => Len(frames) = 2

\* the generator has a step to take: the guards of GenClientUnavailable,
\* GenDispatch, GenClientUnavailableEnd, GenFinally and GenReturn
GenCanStep ==
  /\ handler = "mcp"
  /\ \/ pc = "created"
     \/ /\ pc \in {"L64", "L65", "L95", "L105", "L110", "L113"}
        /\ AfterYield(pc) \in {"L65", "finally", "return"}

\* ------------------------------------------------------------------ claims
\* C1: every accepted /mcp request, whatever the outcome of dispatch, streams
\* exactly one result frame (assistant or error role) and then exactly one end
\* marker: the marker is last, never doubled, never left out, and the
\* generator always has a next step until the stream is closed.
C1_OneResultOneEnd ==
  /\ McpStreaming => OneResultThenEnd
  /\ (handler = "mcp" /\ pc = "created") => frames = <<>>
  /\ (handler = "mcp" /\ pc # "done") => GenCanStep
  /\ McpClosed =>
       /\ Cardinality({i \in 1..Len(frames) : IsEndMarker(frames[i])}) = 1
       /\ Cardinality({i \in 1..Len(frames) : IsResultFrame(frames[i])}) = 1
       /\ IsEndMarker(frames[Len(frames)])

C1_Witness ==
  /\ McpClosed /\ provider.kind = "other"
  /\ Len(frames) = 2 /\ IsErrorFrame(frames[1]) /\ IsEndMarker(frames[2])

\* C2: a send_whatsapp_message request with non-empty to and body whose send
\* the provider accepts streams one assistant frame and then one end marker,
\* no error frame, and the assistant frame's content.text decodes to the
\* message_sid and status the provider returned.
C2_SuccessFrame ==
  (/\ McpStreaming /\ twilio_client
   /\ CapabilityOf(message) = PyStrV(<<"send_whatsapp_message">>)
   /\ Truthy(ParamsOf(message).to) /\ Truthy(ParamsOf(message).body)
   /\ provider.kind = "ok")
  => /\ OneResultThenEnd
     /\ IsAssistantFrame(frames[1])
     /\ \A i \in 1..Len(frames) : ~IsErrorFrame(frames[i])
     /\ Get(FrameRecord(frames[1]), <<"message_sid">>) = JStr(provider.sid)
     /\ Get(FrameRecord(frames[1]), <<"status">>) = JStr(provider.status.s)
     /\ Len(FrameRecord(frames[1]).o) = 2

C2_Witness ==
  /\ McpClosed /\ provider.kind = "ok" /\ provider.sid = <<"S", "M", "2">>
  /\ Len(frames) = 2 /\ IsAssistantFrame(frames[1])

\* C3: a send_whatsapp_message request (client initialized) whose to or body is
\* absent or empty streams one error frame whose message names the missing
\* parameter, then one end marker, and makes no provider call.
C3_MissingParams ==
  (/\ McpStreaming /\ twilio_client
   /\ CapabilityOf(message) = PyStrV(<<"send_whatsapp_message">>)
   /\ (~Truthy(ParamsOf(message).to) \/ ~Truthy(ParamsOf(message).body)))
  => /\ OneResultThenEnd
     /\ IsErrorFrame(frames[1])
     /\ sends = <<>>
     /\ provider = NoOutcome
     /\ ~Truthy(ParamsOf(message).to) => Contains(FrameMessage(frames[1]), <<"'to'">>)
     /\ ~Truthy(ParamsOf(message).body) => Contains(FrameMessage(frames[1]), <<"'body'">>)

\* C4: a request (client initialized) whose capability is not
\* send_whatsapp_message, absent and null included, streams one error frame
\* whose message holds "Capacidad no soportada: " and the capability as
\* Python renders it (None for an absent one), then one end marker, and makes
\* no provider call.
C4_UnsupportedCapability ==
  (/\ McpStreaming /\ twilio_client
   /\ CapabilityOf(message) # PyStrV(<<"send_whatsapp_message">>))
  => /\ OneResultThenEnd
     /\ IsErrorFrame(frames[1])
     /\ Contains(FrameMessage(frames[1]),
                 <<"Capacidad no soportada: ">> \o PyStr(CapabilityOf(message)))
     /\ sends = <<>>
     /\ provider = NoOutcome

C4_Witness ==
  /\ McpClosed /\ twilio_client
  /\ CapabilityOf(message) = PyStrV(<<"a", Quote>>)
  /\ ParamsOf(message).kind = "dict"
  /\ Len(frames) = 2 /\ IsErrorFrame(frames[1])
  /\ Contains(FrameMessage(frames[1]), <<"a", Quote>>)

\* C5: with the client uninitialized (a credential missing or the constructor
\* failed) every accepted /mcp request streams the same client-unavailable
\* error frame and then one end marker, whatever its capability and params,
\* and makes no provider call; the client is initialized only when the
\* outbound number is set.
C5_ClientUnavailable ==
  /\ twilio_client => Truthy(TWILIO_WHATSAPP_NUMBER)
  /\ (McpStreaming /\ ~twilio_client)
     => /\ OneResultThenEnd
        /\ IsErrorFrame(frames[1])
        /\ FrameRecord(frames[1]) =
             JObj(<< <<(<<"message">>),
                       JStr(<<"Error interno: Cliente de Twilio no inicializado (faltan credenciales).">>)>> >>)
        /\ Len(frames) = 2 => frames[2] = EndFrame(<<"Stream ended due to error">>)
        /\ sends = <<>>
        /\ provider = NoOutcome

C5_Witness ==
  /\ McpClosed /\ ~twilio_client /\ Truthy(TWILIO_WHATSAPP_NUMBER)
  /\ CapabilityOf(message) = PyStrV(<<"send_whatsapp_message">>)
  /\ Truthy(ParamsOf(message).to) /\ Truthy(ParamsOf(message).body)
  /\ Len(frames) = 2

\* the frame of a provider rejection, with the details under the keys k1, k2
RejectionSurfaced(codeKey, statusKey) ==
  (McpStreaming /\ provider.kind = "rest")
  => /\ OneResultThenEnd
     /\ IsErrorFrame(frames[1])
     /\ Get(Get(FrameRecord(frames[1]), <<"details">>), codeKey) = ToJson(provider.code)
     /\ Get(Get(FrameRecord(frames[1]), <<"details">>), statusKey) = ToJson(provider.status)
     /\ Contains(FrameMessage(frames[1]), provider.msg)
     /\ ~Contains(FrameMessage(frames[1]), <<"Error inesperado al procesar la solicitud (">>)

\* C6 as stated: the error record of a provider rejection carries the
\* provider's code under details.provider_code and its status under
\* details.provider_status.
C6_AsStated == RejectionSurfaced(<<"provider_code">>, <<"provider_status">>)

\* C6 (amended): the error record of a provider rejection carries the
\* provider's code under details.twilio_code and its status under
\* details.status, its message holds the provider's message, and it is not
\* the generic unexpected-error record.
C6_RejectionPreserved == RejectionSurfaced(<<"twilio_code">>, <<"status">>)

C6_Witness ==
  /\ McpClosed /\ provider.kind = "rest" /\ provider.code = PyInt(21211)
  /\ provider.msg = <<"bad ", Quote, "x", Quote, Backslash>>
  /\ Len(frames) = 2 /\ IsErrorFrame(frames[1])

\* C7: an /mcp request calls the provider's send at most once; after a send
\* that failed there is still one call only, and the failure is the
\* request's one error frame.
C7_NoRetry ==
  handler = "mcp" =>
    /\ Len(sends) <= 1
    /\ (McpStreaming /\ provider.kind \in {"rest", "other"}) =>
         /\ Len(sends) = 1
         /\ OneResultThenEnd
         /\ IsErrorFrame(frames[1])

C7_Witness ==
  /\ McpClosed /\ provider.kind = "rest" /\ Len(sends) = 1
  /\ Len(frames) = 2 /\ IsErrorFrame(frames[1])

\* C8: the webhook answers 400, with no provider call, exactly when Body or
\* From is missing or empty; otherwise it answers 200 with an empty object,
\* also when its handling failed and the apology send failed or could not be
\* made.
C8_WebhookResponse ==
  (handler = "webhook" /\ pc = "done") =>
    LET malformed == ~Truthy(form.Body) \/ ~Truthy(form.From) IN
    /\ httpStatus = 400 <=> malformed
    /\ malformed => sends = <<>> /\ provider = NoOutcome
    /\ ~malformed => httpStatus = 200 /\ responseBody = JObj(<<>>)
    /\ ~internalError => sends = <<>>
    /\ Len(sends) <= 1

C8_Witness ==
  /\ handler = "webhook" /\ pc = "done" /\ internalError
  /\ provider.kind = "rest" /\ Len(sends) = 1
  /\ httpStatus = 200 /\ responseBody = JObj(<<>>)

\* the address the request in hand asks to send to
RequestAddress ==
  IF handler = "mcp" /\ ParamsOf(message).to.t = "str" THEN ParamsOf(message).to.s
  ELSE IF handler = "webhook" /\ form.From.t = "str" THEN form.From.s
  ELSE <<>>

\* C9: address normalization, as applied to the to address, the configured
\* from address and the webhook sender, is idempotent, leaves a prefixed
\* address unchanged, and gives a bare address and its prefixed form the same
\* value; every address handed to the provider is a fixed point of it.
C9_NormalizeIdempotent ==
  /\ \A a \in {RequestAddress, TWILIO_WHATSAPP_NUMBER.s} :
       /\ Normalize(Normalize(a)) = Normalize(a)
       /\ StartsWith(Normalize(a), Prefix)
       /\ StartsWith(a, Prefix) => Normalize(a) = a
       /\ ~StartsWith(a, Prefix) => Normalize(Prefix \o a) = Normalize(a)
  /\ \A i \in 1..Len(sends) :
       /\ Normalize(sends[i].to) = sends[i].to
       /\ Normalize(sends[i].from_) = sends[i].from_
       /\ sends[i].to \in {RequestAddress, Prefix \o RequestAddress}
       /\ sends[i].from_ \in {TWILIO_WHATSAPP_NUMBER.s, Prefix \o TWILIO_WHATSAPP_NUMBER.s}

C9_Witness ==
  /\ Len(sends) = 1
  /\ ~StartsWith(RequestAddress, Prefix)
  /\ RequestAddress # <<>>
  /\ sends[1].to = Prefix \o RequestAddress
  /\ StartsWith(TWILIO_WHATSAPP_NUMBER.s, Prefix)
  /\ sends[1].from_ = TWILIO_WHATSAPP_NUMBER.s

\* C10: an /mcp request calls the provider's send only if params.to and
\* params.body are both non-empty strings.
C10_OnlyStringsSent ==
  (handler = "mcp" /\ sends # <<>>) =>
    /\ ParamsOf(message).to.t = "str" /\ ParamsOf(message).to.s # <<>>
    /\ ParamsOf(message).body.t = "str" /\ ParamsOf(message).body.s # <<>>

====
